---- MODULE Spec2Model ----
(***************************************************************************)
(* Eat-In turn time leaderboards (app.py): column resolution, leaderboard  *)
(* aggregation, threshold colouring and the per-upload processing loop.    *)
(*                                                                         *)
(* Text is a sequence of one-character strings, so that strip(), lower(),  *)
(* upper(), substring tests and concatenation are computed as Python       *)
(* computes them.  A table (DataFrame) is a record                         *)
(*   [columns |-> sequence of column names, rows |-> sequence of rows],    *)
(* every row a sequence of cells aligned with columns.  A cell is a record *)
(* [k, v]: k = "str" (v the text), "nan" (missing), "ts" (v = <<minute of  *)
(* the day>>), "nat" (missing timestamp), "num" (v = <<n, d>>, the exact   *)
(* rational n/d in lowest terms, d > 0).                                   *)
(***************************************************************************)
EXTENDS Integers, Sequences, FiniteSets, TLC

VARIABLES
    pc,          \* position of the script / of the call sequence
    THRESHOLDS,  \* the module-level threshold configuration
    uploads,     \* the uploaded files, in upload order
    i,           \* index of the upload the loop is at
    shown,       \* st.image calls so far
    zf,          \* entries written to the zip archive so far
    errors,      \* st.error calls so far
    df,          \* the table read from the upload (the caller's table)
    role,        \* the role pick_col was last asked to resolve
    picked,      \* what pick_col returned for it
    mapping,     \* what map_required_columns returned
    out,         \* what compute_leaderboard returned
    colors,      \* the cellColours matrix render_image_table built
    raised       \* message of the exception the last call raised, or None

vars == <<pc, THRESHOLDS, uploads, i, shown, zf, errors, df, role, picked,
          mapping, out, colors, raised>>

----------------------------------------------------------------------------
(* Bounds of the model.                                                    *)

MaxCols == 4        \* columns of a table in the column-resolution runs
MaxRows == 3        \* rows of an input table in the aggregation runs
MaxBoardRows == 2   \* rows of a leaderboard handed to the renderer
MaxFiles == 2       \* uploads in one batch

----------------------------------------------------------------------------
(* Text.                                                                   *)

\* Python's None; no text equals it, as no character is "None".
None == <<"None">>

Digits == <<"0", "1", "2", "3", "4", "5", "6", "7", "8", "9">>

Whitespace == {" ", "\t", "\n", "\r"}

ToLower(ch) ==
    CASE ch = "A" -> "a" [] ch = "B" -> "b" [] ch = "C" -> "c"
      [] ch = "D" -> "d" [] ch = "E" -> "e" [] ch = "F" -> "f"
      [] ch = "G" -> "g" [] ch = "H" -> "h" [] ch = "I" -> "i"
      [] ch = "J" -> "j" [] ch = "K" -> "k" [] ch = "L" -> "l"
      [] ch = "M" -> "m" [] ch = "N" -> "n" [] ch = "O" -> "o"
      [] ch = "P" -> "p" [] ch = "Q" -> "q" [] ch = "R" -> "r"
      [] ch = "S" -> "s" [] ch = "T" -> "t" [] ch = "U" -> "u"
      [] ch = "V" -> "v" [] ch = "W" -> "w" [] ch = "X" -> "x"
      [] ch = "Y" -> "y" [] ch = "Z" -> "z" [] OTHER -> ch

ToUpper(ch) ==
    CASE ch = "a" -> "A" [] ch = "b" -> "B" [] ch = "c" -> "C"
      [] ch = "d" -> "D" [] ch = "e" -> "E" [] ch = "f" -> "F"
      [] ch = "g" -> "G" [] ch = "h" -> "H" [] ch = "i" -> "I"
      [] ch = "j" -> "J" [] ch = "k" -> "K" [] ch = "l" -> "L"
      [] ch = "m" -> "M" [] ch = "n" -> "N" [] ch = "o" -> "O"
      [] ch = "p" -> "P" [] ch = "q" -> "Q" [] ch = "r" -> "R"
      [] ch = "s" -> "S" [] ch = "t" -> "T" [] ch = "u" -> "U"
      [] ch = "v" -> "V" [] ch = "w" -> "W" [] ch = "x" -> "X"
      [] ch = "y" -> "Y" [] ch = "z" -> "Z" [] OTHER -> ch

\* str.lower()
Lower(s) == [j \in 1..Len(s) |-> ToLower(s[j])]

\* str.upper()
Upper(s) == [j \in 1..Len(s) |-> ToUpper(s[j])]

\* str.strip()
Strip(s) ==
    LET keep == {j \in 1..Len(s) : s[j] \notin Whitespace}
    IN  IF keep = {} THEN <<>>
        ELSE SubSeq(s, CHOOSE j \in keep : \A m \in keep : j <= m,
                       CHOOSE j \in keep : \A m \in keep : j >= m)

\* Python's "sub in s"
Contains(s, sub) ==
    \E j \in 0..(Len(s) - Len(sub)) : \A m \in 1..Len(sub) : s[j + m] = sub[m]

\* sep.join(parts)
RECURSIVE Join(_, _)
Join(parts, sep) ==
    IF parts = <<>> THEN <<>>
    ELSE IF Len(parts) = 1 THEN parts[1]
    ELSE parts[1] \o sep \o Join(Tail(parts), sep)

----------------------------------------------------------------------------
(* Column resolution.                                                      *)

Roles == {"Opened", "Closed", "Service", "Created By", "Site"}

ALIASES ==
    [r \in Roles |->
        CASE r = "Opened" ->
             << <<"o", "p", "e", "n", "e", "d">>,
                <<"o", "p", "e", "n">>,
                <<"o", "r", "d", "e", "r", " ", "s", "t", "a", "r", "t">>,
                <<"s", "t", "a", "r", "t", " ", "t", "i", "m", "e">>,
                <<"o", "p", "e", "n", "e", "d", " ", "a", "t">> >>
          [] r = "Closed" ->
             << <<"c", "l", "o", "s", "e", "d">>,
                <<"c", "l", "o", "s", "e">>,
                <<"o", "r", "d", "e", "r", " ", "e", "n", "d">>,
                <<"e", "n", "d", " ", "t", "i", "m", "e">>,
                <<"c", "l", "o", "s", "e", "d", " ", "a", "t">> >>
          [] r = "Service" ->
             << <<"s", "e", "r", "v", "i", "c", "e">>,
                <<"s", "e", "r", "v", "i", "c", "e", " ", "t", "y", "p", "e">>,
                <<"o", "r", "d", "e", "r", " ", "t", "y", "p", "e">> >>
          [] r = "Created By" ->
             << <<"c", "r", "e", "a", "t", "e", "d", " ", "b", "y">>,
                <<"s", "e", "r", "v", "e", "r">>,
                <<"s", "e", "r", "v", "e", "r", " ", "n", "a", "m", "e">>,
                <<"e", "m", "p", "l", "o", "y", "e", "e">>,
                <<"c", "a", "s", "h", "i", "e", "r">> >>
          [] r = "Site" ->
             << <<"s", "i", "t", "e">>,
                <<"l", "o", "c", "a", "t", "i", "o", "n">>,
                <<"s", "t", "o", "r", "e">>,
                <<"r", "e", "s", "t", "a", "u", "r", "a", "n", "t">> >> ]

\* The test of line 26 for lc, the stripped lower-cased name, and alias a.
AliasHit(lc, a) == lc = Lower(a) \/ Contains(lc, Lower(a))

\* The scan with the loops exchanged: aliases outside, columns inside.
RECURSIVE alias_first_scan(_, _, _)
alias_first_scan(columns, candidates, a) ==
    IF a > Len(candidates) THEN None
    ELSE LET hits == {j \in 1..Len(columns) :
                          AliasHit(Lower(Strip(columns[j])), candidates[a])}
         IN  IF hits # {}
             THEN columns[CHOOSE j \in hits : \A m \in hits : j <= m]
             ELSE alias_first_scan(columns, candidates, a + 1)

pick_col_alias_first(d, candidates) == alias_first_scan(d.columns, candidates, 1)

\* for c in df.columns: for a in candidates: if ...: return c
RECURSIVE column_scan(_, _, _)
column_scan(columns, candidates, j) ==
    IF j > Len(columns) THEN None
    ELSE LET c == columns[j]
             lc == Lower(Strip(c))
         IN  IF \E a \in 1..Len(candidates) : AliasHit(lc, candidates[a])
             THEN c
             ELSE column_scan(columns, candidates, j + 1)

pick_col(d, candidates) == column_scan(d.columns, candidates, 1)

MissingPrefix ==
    <<"M", "i", "s", "s", "i", "n", "g", " ", "r", "e", "q", "u", "i", "r",
      "e", "d", " ", "c", "o", "l", "u", "m", "n", "(", "s", ")", ":", " ">>

CommaSpace == <<",", " ">>

\* The result of a call: the exception's message (or None) and the value.
Returned(v) == [raised |-> None, value |-> v]
Raised(msg) == [raised |-> msg, value |-> None]

\* [n for n, v in pairs if v is None]
RECURSIVE NamesOfNone(_)
NamesOfNone(pairs) ==
    IF pairs = <<>> THEN <<>>
    ELSE (IF pairs[1].v = None THEN <<pairs[1].n>> ELSE <<>>)
         \o NamesOfNone(Tail(pairs))

\* map_required_columns with Site checked as if it were required.
map_required_columns_site_required(d) ==
    LET col_opened  == pick_col(d, ALIASES["Opened"])
        col_closed  == pick_col(d, ALIASES["Closed"])
        col_service == pick_col(d, ALIASES["Service"])
        col_server  == pick_col(d, ALIASES["Created By"])
        col_site    == pick_col(d, ALIASES["Site"])
        missing == NamesOfNone(
            << [n |-> <<"O", "p", "e", "n", "e", "d">>, v |-> col_opened],
               [n |-> <<"C", "l", "o", "s", "e", "d">>, v |-> col_closed],
               [n |-> <<"S", "e", "r", "v", "i", "c", "e">>, v |-> col_service],
               [n |-> <<"C", "r", "e", "a", "t", "e", "d", " ", "B", "y">>,
                v |-> col_server],
               [n |-> <<"S", "i", "t", "e">>, v |-> col_site] >>)
    IN  IF missing # <<>>
        THEN Raised(MissingPrefix \o Join(missing, CommaSpace))
        ELSE Returned([col_opened |-> col_opened, col_closed |-> col_closed,
                       col_service |-> col_service, col_server |-> col_server,
                       col_site |-> col_site])

map_required_columns(d) ==
    LET col_opened  == pick_col(d, ALIASES["Opened"])
        col_closed  == pick_col(d, ALIASES["Closed"])
        col_service == pick_col(d, ALIASES["Service"])
        col_server  == pick_col(d, ALIASES["Created By"])
        col_site    == pick_col(d, ALIASES["Site"])
        missing == NamesOfNone(
            << [n |-> <<"O", "p", "e", "n", "e", "d">>, v |-> col_opened],
               [n |-> <<"C", "l", "o", "s", "e", "d">>, v |-> col_closed],
               [n |-> <<"S", "e", "r", "v", "i", "c", "e">>, v |-> col_service],
               [n |-> <<"C", "r", "e", "a", "t", "e", "d", " ", "B", "y">>,
                v |-> col_server] >>)
    IN  IF missing # <<>>
        THEN Raised(MissingPrefix \o Join(missing, CommaSpace))
        ELSE Returned([col_opened |-> col_opened, col_closed |-> col_closed,
                       col_service |-> col_service, col_server |-> col_server,
                       col_site |-> col_site])

----------------------------------------------------------------------------
(* Cells, exact rationals and tables.                                      *)

Str(t) == [k |-> "str", v |-> t]
NaN == [k |-> "nan", v |-> <<>>]
NaT == [k |-> "nat", v |-> <<>>]
Ts(m) == [k |-> "ts", v |-> <<m>>]

RECURSIVE Gcd(_, _)
Gcd(a, b) == IF b = 0 THEN a ELSE Gcd(b, a % b)

Abs(a) == IF a < 0 THEN -a ELSE a

\* The number n/d (d > 0), in lowest terms.
Num(n, d) ==
    LET g == Gcd(Abs(n), d)
    IN  [k |-> "num", v |-> <<n \div g, d \div g>>]

NumLess(x, y) == x.v[1] * y.v[2] < y.v[1] * x.v[2]
NumLeq(x, y) == x.v[1] * y.v[2] <= y.v[1] * x.v[2]
NumAdd(x, y) == Num(x.v[1] * y.v[2] + y.v[1] * x.v[2], x.v[2] * y.v[2])
NumDiv(x, c) == Num(x.v[1], x.v[2] * c)

\* round(x, 2): to the nearest hundredth, a tie to the even one.
Round2(x) ==
    LET a == 100 * x.v[1]
        f == a \div x.v[2]
        r == a % x.v[2]
        up == 2 * r > x.v[2] \/ (2 * r = x.v[2] /\ f % 2 = 1)
    IN  Num(IF up THEN f + 1 ELSE f, 100)

IsNA(c) == c.k \in {"nan", "nat"}

HasColumn(fr, c) == \E j \in 1..Len(fr.columns) : fr.columns[j] = c

ColIdx(fr, c) == CHOOSE j \in 1..Len(fr.columns) : fr.columns[j] = c

\* fr[c], the cells of column c by row position
Column(fr, c) ==
    LET j == ColIdx(fr, c)
    IN  [r \in 1..Len(fr.rows) |-> fr.rows[r][j]]

\* fr[c] at row position r
Cell(fr, r, c) == fr.rows[r][ColIdx(fr, c)]

\* fr[c] = vals : replaces the column, or appends it when there is none
SetColumn(fr, c, vals) ==
    IF HasColumn(fr, c)
    THEN [fr EXCEPT !.rows =
            [r \in 1..Len(fr.rows) |->
                [fr.rows[r] EXCEPT ![ColIdx(fr, c)] = vals[r]]]]
    ELSE [columns |-> Append(fr.columns, c),
          rows |-> [r \in 1..Len(fr.rows) |-> Append(fr.rows[r], vals[r])]]

\* fr[mask] : the rows whose mask is true, in order
RECURSIVE KeepRows(_, _, _)
KeepRows(rows, mask, r) ==
    IF r > Len(rows) THEN <<>>
    ELSE (IF mask[r] THEN <<rows[r]>> ELSE <<>>) \o KeepRows(rows, mask, r + 1)

Where(fr, mask) == [fr EXCEPT !.rows = KeepRows(fr.rows, mask, 1)]

\* pd.concat([a, b], ignore_index=True): the columns of a, then those only
\* b has; a cell a table has no column for is NaN.
Concat(a, b) ==
    LET extra == SelectSeq(b.columns, LAMBDA c : ~HasColumn(a, c))
        columns == a.columns \o extra
        widen(fr, row) ==
            [j \in 1..Len(columns) |->
                IF HasColumn(fr, columns[j])
                THEN row[ColIdx(fr, columns[j])] ELSE NaN]
    IN  [columns |-> columns,
         rows |-> [r \in 1..Len(a.rows) |-> widen(a, a.rows[r])]
                  \o [r \in 1..Len(b.rows) |-> widen(b, b.rows[r])]]

----------------------------------------------------------------------------
(* Leaderboard aggregation.                                                *)

DigitOf(ch) == (CHOOSE j \in 1..10 : Digits[j] = ch) - 1

IsDigit(ch) == \E j \in 1..10 : Digits[j] = ch

\* A clock text "HH:MM" is a time of the day of the parse; any other text
\* of the tables below is no date and time at all.
IsClock(t) ==
    /\ Len(t) = 5
    /\ t[3] = ":"
    /\ \A j \in {1, 2, 4, 5} : IsDigit(t[j])
    /\ 10 * DigitOf(t[1]) + DigitOf(t[2]) < 24
    /\ 10 * DigitOf(t[4]) + DigitOf(t[5]) < 60

\* pd.to_datetime(..., errors="coerce") on one cell
to_datetime(c) ==
    CASE c.k = "str" ->
           IF IsClock(c.v)
           THEN Ts(60 * (10 * DigitOf(c.v[1]) + DigitOf(c.v[2]))
                   + 10 * DigitOf(c.v[4]) + DigitOf(c.v[5]))
           ELSE NaT
      [] c.k = "nan" -> NaT
      [] c.k \in {"ts", "nat"} -> c

EatInPattern == <<"e", "a", "t", " ", "i", "n">>

\* The same test without case=False.
eat_in_case_sensitive(c) == c.k = "str" /\ Contains(c.v, EatInPattern)

\* .astype(str).str.contains("eat in", case=False, na=False) on one cell.
\* The text of a missing cell ("nan") and of a timestamp (digits, "-", ":",
\* " ", or "NaT") hold no "eat in".
eat_in(c) == c.k = "str" /\ Contains(Lower(c.v), Lower(EatInPattern))

\* (closed - opened).dt.total_seconds()/60 on one row
minutes_between(closed, opened) ==
    IF closed.k = "ts" /\ opened.k = "ts"
    THEN Num(closed.v[1] - opened.v[1], 1)
    ELSE NaN

TurnTimeCol == <<"T", "u", "r", "n", " ", "T", "i", "m", "e">>
ServerCol == <<"S", "e", "r", "v", "e", "r">>
SiteCol == <<"S", "i", "t", "e">>
StoreAverage == <<"S", "T", "O", "R", "E", " ", "A", "V", "E", "R", "A", "G", "E">>
Unknown == <<"(", "U", "n", "k", "n", "o", "w", "n", ")">>

NoValidRows ==
    <<"N", "o", " ", "v", "a", "l", "i", "d", " ", "E", "a", "t", " ", "I",
      "n", " ", "r", "o", "w", "s", " ", "w", "i", "t", "h", " ", "c", "a",
      "l", "c", "u", "l", "a", "b", "l", "e", " ", "T", "u", "r", "n", " ",
      "T", "i", "m", "e", " ", "w", "e", "r", "e", " ", "f", "o", "u", "n",
      "d", ".">>

\* Lines 46-47 without the filter of line 47.
valid_turn_times_keep_negative(eat) ==
    Where(eat, [r \in 1..Len(eat.rows) |-> ~IsNA(Cell(eat, r, TurnTimeCol))])

\* Lines 46-47: no cell is infinite (a difference of timestamps is finite
\* or missing), rows without a Turn Time go, then the negative ones.
valid_turn_times(eat) ==
    LET e1 == Where(eat, [r \in 1..Len(eat.rows) |->
                             ~IsNA(Cell(eat, r, TurnTimeCol))])
    IN  Where(e1, [r \in 1..Len(e1.rows) |->
                      NumLeq(Num(0, 1), Cell(e1, r, TurnTimeCol))])

\* .fillna("(Unknown)").replace("", "(Unknown)") on one cell
fill_unknown(c) ==
    IF IsNA(c) \/ (c.k = "str" /\ c.v = <<>>) THEN Str(Unknown) ELSE c

RECURSIVE NumSum(_)
NumSum(cells) ==
    IF cells = <<>> THEN Num(0, 1)
    ELSE NumAdd(cells[1], NumSum(Tail(cells)))

\* Series.mean() of a non-empty numeric column
Mean(cells) == NumDiv(NumSum(cells), Len(cells))

\* eat.groupby(col_server, dropna=False)["Turn Time"].mean(): one record
\* per distinct key, with the mean at full precision.
groupby_mean(eat, col_server) ==
    LET keys == {Cell(eat, r, col_server) : r \in 1..Len(eat.rows)}
    IN  {[Server |-> key,
          TurnTime |-> Mean(Column(Where(eat,
                          [r \in 1..Len(eat.rows) |->
                              Cell(eat, r, col_server) = key]),
                        TurnTimeCol))] : key \in keys}

\* The orders sort_values(ascending=False) would allow.
RECURSIVE sort_values_descending(_)
sort_values_descending(groups) ==
    IF groups = {} THEN {<<>>}
    ELSE UNION {{<<g>> \o rest : rest \in sort_values_descending(groups \ {g})} :
                g \in {g \in groups :
                        \A h \in groups : NumLeq(h.TurnTime, g.TurnTime)}}

\* grp.sort_values("Turn Time", ascending=True): the sort is not stable, so
\* groups of equal mean come in any order.
RECURSIVE sort_values(_)
sort_values(groups) ==
    IF groups = {} THEN {<<>>}
    ELSE UNION {{<<g>> \o rest : rest \in sort_values(groups \ {g})} :
                g \in {g \in groups :
                        \A h \in groups : NumLeq(g.TurnTime, h.TurnTime)}}

\* The store average taken as the mean of the group means.
store_avg_of_group_means(eat, col_server) ==
    LET means == sort_values(groupby_mean(eat, col_server))
        one == CHOOSE s \in means : TRUE
    IN  Round2(Mean([g \in 1..Len(one) |-> one[g].TurnTime]))

\* round(eat["Turn Time"].mean(), 2)
store_avg(eat, col_server) == Round2(Mean(Column(eat, TurnTimeCol)))

\* str(value) of a text cell or of a missing one
PyStr(c) ==
    CASE c.k = "str" -> c.v
      [] c.k = "nan" -> <<"n", "a", "n">>

\* Lines 52-55 for one order of the groups: the frame grp.
grp_frame(sorted) ==
    [columns |-> <<ServerCol, TurnTimeCol>>,
     rows |-> [g \in 1..Len(sorted) |->
                  <<sorted[g].Server, Round2(sorted[g].TurnTime)>>]]

\* Lines 57-63: the average row, the Site annotation and the concatenation.
with_average(eat, grp, col_server, col_site) ==
    LET avg == store_avg(eat, col_server)
        sites == IF col_site # None /\ col_site # <<>>
                 THEN {Cell(eat, r, col_site) : r \in 1..Len(eat.rows)}
                 ELSE {}
        present == {c \in sites : ~IsNA(c)}
    IN  IF col_site # None /\ col_site # <<>> /\ Cardinality(present) = 1
        THEN LET site_val == Str(PyStr(CHOOSE c \in present : TRUE))
             IN  Concat([columns |-> <<SiteCol>> \o grp.columns,
                         rows |-> [r \in 1..Len(grp.rows) |->
                                      <<site_val>> \o grp.rows[r]]],
                        [columns |-> <<SiteCol, ServerCol, TurnTimeCol>>,
                         rows |-> << <<site_val, Str(StoreAverage), avg>> >>])
        ELSE Concat(grp,
                    [columns |-> <<ServerCol, TurnTimeCol>>,
                     rows |-> << <<Str(StoreAverage), avg>> >>])

\* The rows line 50 is reached with: lines 42-47 on the caller's table.
\* parsed is the caller's table after lines 42-43, eat the surviving rows.
parse_and_filter(d, m) ==
    LET d1 == SetColumn(d, m.col_opened,
                  [r \in 1..Len(d.rows) |-> to_datetime(Cell(d, r, m.col_opened))])
        d2 == SetColumn(d1, m.col_closed,
                  [r \in 1..Len(d1.rows) |-> to_datetime(Cell(d1, r, m.col_closed))])
        eat0 == Where(d2, [r \in 1..Len(d2.rows) |->
                              eat_in(Cell(d2, r, m.col_service))])
        eat1 == SetColumn(eat0, TurnTimeCol,
                  [r \in 1..Len(eat0.rows) |->
                      minutes_between(Cell(eat0, r, m.col_closed),
                                      Cell(eat0, r, m.col_opened))])
    IN  [parsed |-> d2, eat |-> valid_turn_times(eat1)]

\* compute_leaderboard(df, col_opened, ..., col_site), m the five columns:
\* the set of its possible results, each with the caller's table as the
\* call leaves it.  The results differ only in the order of tied groups.
compute_leaderboard(d, m) ==
    LET pf == parse_and_filter(d, m)
        eat == SetColumn(pf.eat, m.col_server,
                  [r \in 1..Len(pf.eat.rows) |->
                      fill_unknown(Cell(pf.eat, r, m.col_server))])
    IN  IF pf.eat.rows = <<>>
        THEN {[raised |-> NoValidRows, value |-> None, df |-> pf.parsed]}
        ELSE {[raised |-> None,
               value |-> with_average(eat, grp_frame(sorted),
                                      m.col_server, m.col_site),
               df |-> pf.parsed] :
              sorted \in sort_values(groupby_mean(eat, m.col_server))}

----------------------------------------------------------------------------
(* Rendering: the cellColours matrix of render_image_table.                *)

DefaultThresholds == [green |-> Num(35, 1), yellow_hi |-> Num(37, 1)]

\* Lines 81-86 with the first comparison taken as <=.
turn_time_color_green_inclusive(v) ==
    IF NumLeq(v, THRESHOLDS.green) THEN "#C6EFCE"
    ELSE IF NumLeq(THRESHOLDS.green, v) /\ NumLeq(v, THRESHOLDS.yellow_hi)
         THEN "#FFEB9C"
    ELSE IF NumLess(THRESHOLDS.yellow_hi, v) THEN "#FFC7CE"
    ELSE "white"

\* Lines 81-86: the colour of the Turn Time cell for the number v.
turn_time_color(v) ==
    IF NumLess(v, THRESHOLDS.green) THEN "#C6EFCE"
    ELSE IF NumLeq(THRESHOLDS.green, v) /\ NumLeq(v, THRESHOLDS.yellow_hi)
         THEN "#FFEB9C"
    ELSE IF NumLess(THRESHOLDS.yellow_hi, v) THEN "#FFC7CE"
    ELSE "white"

\* [c for c in ["Site", "Server", "Turn Time"] if c in df.columns]
display_cols(d) ==
    SelectSeq(<<SiteCol, ServerCol, TurnTimeCol>>, LAMBDA c : HasColumn(d, c))

\* Lines 75-88 for one row.  float() of a missing Turn Time is nan, which
\* no comparison accepts, so the cell keeps its default.
row_colors(d, row) ==
    LET cols == display_cols(d)
        tt_idx == CHOOSE j \in 1..Len(cols) : cols[j] = TurnTimeCol
        server == row[ColIdx(d, ServerCol)]
        tt == row[ColIdx(d, TurnTimeCol)]
    IN  IF Upper(Strip(PyStr(server))) = StoreAverage
        THEN [j \in 1..Len(cols) |-> "#E0E0E0"]
        ELSE [j \in 1..Len(cols) |->
                 IF j = tt_idx /\ tt.k = "num" THEN turn_time_color(tt)
                 ELSE "white"]

\* render_image_table(df, title): the image, as its title and cell colours.
render_image_table(d, title) ==
    [title |-> title,
     colors |-> [r \in 1..Len(d.rows) |-> row_colors(d, d.rows[r])]]

----------------------------------------------------------------------------
(* The upload loop.                                                        *)

EmptyFrame == [columns |-> <<>>, rows |-> <<>>]

Unbound ==
    [col_opened |-> None, col_closed |-> None, col_service |-> None,
     col_server |-> None, col_site |-> None]

NoColumnsToParse ==
    <<"N", "o", " ", "c", "o", "l", "u", "m", "n", "s", " ", "t", "o", " ",
      "p", "a", "r", "s", "e", " ", "f", "r", "o", "m", " ", "f", "i", "l",
      "e">>

\* pd.read_csv(upl): the decoded table; an empty file has no columns to
\* parse, which read_csv reports as an error.
read_csv(upl) ==
    IF upl.table.columns = <<>> THEN Raised(NoColumnsToParse)
    ELSE Returned(upl.table)

\* os.path.splitext(name)[0] of a name without directories: the name up to
\* its last dot, unless only dots precede that dot.
splitext_base(name) ==
    LET dots == {j \in 1..Len(name) : name[j] = "."}
        last == CHOOSE j \in dots : \A m \in dots : m <= j
    IN  IF dots # {} /\ \E m \in 1..(last - 1) : name[m] # "."
        THEN SubSeq(name, 1, last - 1)
        ELSE name

\* "Eat-In Turn Time Leaderboard – "; the dash is one character.
TitlePrefix ==
    <<"E", "a", "t", "-", "I", "n", " ", "T", "u", "r", "n", " ", "T", "i",
      "m", "e", " ", "L", "e", "a", "d", "e", "r", "b", "o", "a", "r", "d",
      " ", "EN DASH", " ">>

PngSuffix ==
    <<"_", "l", "e", "a", "d", "e", "r", "b", "o", "a", "r", "d", ".", "p",
      "n", "g">>

ColonSpace == <<":", " ">>

\* An except clause that reports the error and lets it end the loop.
except_clause_aborting(k, msg) ==
    [errors |-> Append(errors, [upl |-> k,
                                text |-> uploads[k].name \o ColonSpace \o msg]),
     next |-> Len(uploads) + 1]

\* except Exception as e: st.error(f"{upl.name}: {e}"), and the loop goes on
\* with the next upload.
except_clause(k, msg) ==
    [errors |-> Append(errors, [upl |-> k,
                                text |-> uploads[k].name \o ColonSpace \o msg]),
     next |-> k + 1]

----------------------------------------------------------------------------
(* The tables, leaderboards, thresholds and batches the runs start from.   *)

\* Column names: one per role, one that needs strip() and lower() and hits
\* only the last alias of its role, one that two roles' aliases hit, and
\* one no alias hits.
ColumnNames ==
    { <<"O", "p", "e", "n", "e", "d">>,
      <<"C", "l", "o", "s", "e", "d">>,
      <<"S", "e", "r", "v", "i", "c", "e">>,
      <<"C", "r", "e", "a", "t", "e", "d", " ", "B", "y">>,
      <<"S", "i", "t", "e">>,
      <<" ", "C", "A", "S", "H", "I", "E", "R", " ">>,
      <<"S", "t", "o", "r", "e", " ", "S", "e", "r", "v", "e", "r">>,
      <<"N", "o", "t", "e", "s">> }

\* read_csv gives every column its own name.
Headers(n) ==
    UNION {{h \in [1..m -> ColumnNames] :
               \A a, b \in 1..m : a # b => h[a] # h[b]} : m \in 1..n}

HeaderTables == {[columns |-> h, rows |-> <<>>] : h \in Headers(MaxCols)}

T_1000 == Str(<<"1", "0", ":", "0", "0">>)
T_1010 == Str(<<"1", "0", ":", "1", "0">>)
T_1030 == Str(<<"1", "0", ":", "3", "0">>)
T_1031 == Str(<<"1", "0", ":", "3", "1">>)
T_1050 == Str(<<"1", "0", ":", "5", "0">>)
T_0950 == Str(<<"0", "9", ":", "5", "0">>)
T_bad == Str(<<"b", "a", "d">>)
EatIn == Str(<<"E", "a", "t", " ", "I", "n">>)
EatInLower == Str(<<"d", "i", "n", "e", " ", "/", " ", "e", "a", "t", " ", "i", "n">>)
EatHyphenIn == Str(<<"E", "A", "T", "-", "I", "N">>)
TakeOut == Str(<<"T", "a", "k", "e", " ", "O", "u", "t">>)
ToGo == Str(<<"t", "o", " ", "g", "o">>)
Ann == Str(<<"A", "n", "n">>)
Bob == Str(<<"B", "o", "b">>)
Empty == Str(<<>>)
Site1 == Str(<<"S", "1">>)
Site2 == Str(<<"S", "2">>)

\* Rows as (Opened, Closed, Service, Employee, Site).
RowPool ==
    { <<T_1000, T_1030, EatIn, Ann, Site1>>,        \* 30 minutes
      <<T_1000, T_1050, EatIn, Bob, Site1>>,        \* 50 minutes
      <<T_1000, T_1010, EatInLower, Bob, Site2>>,   \* 10 minutes, other site
      <<T_1000, T_0950, EatIn, Ann, Site2>>,        \* closed before opened
      <<T_1000, T_bad, EatIn, Ann, Site2>>,         \* Closed unparsable
      <<NaN, T_1030, EatIn, Bob, Site2>>,           \* Opened missing
      <<T_1000, T_1031, EatHyphenIn, Ann, Site2>>,  \* hyphenated service
      <<T_1000, T_1010, TakeOut, Bob, Site2>>,      \* not eat-in
      <<T_1000, T_1050, EatIn, NaN, NaN>>,          \* no employee, no site
      <<T_1000, T_1030, EatIn, Empty, Site1>> }     \* empty employee

FullHeader ==
    << <<"O", "p", "e", "n", "e", "d">>, <<"C", "l", "o", "s", "e", "d">>,
       <<"S", "e", "r", "v", "i", "c", "e">>,
       <<"C", "r", "e", "a", "t", "e", "d", " ", "B", "y">>,
       <<"S", "i", "t", "e">> >>

NoSiteHeader == SubSeq(FullHeader, 1, 4)

SharedHeader ==
    SubSeq(FullHeader, 1, 3)
    \o << <<"S", "t", "o", "r", "e", " ", "S", "e", "r", "v", "e", "r">> >>

MakeTable(h, rs) ==
    [columns |-> h,
     rows |-> [r \in 1..Len(rs) |-> SubSeq(rs[r], 1, Len(h))]]

ServiceValues == <<EatIn, EatHyphenIn, TakeOut, ToGo>>

\* The employee of the order with the k-th Service value.
ServiceEmployees ==
    <<Str(<<"W", "1">>), Str(<<"W", "2">>), Str(<<"W", "3">>), Str(<<"W", "4">>)>>

\* Tables of four orders, each with any of the four Service values and
\* the employee of that value.
ServiceTables ==
    {MakeTable(FullHeader,
               [r \in 1..Len(ServiceValues) |->
                   <<T_1000, T_1030, ServiceValues[f[r]],
                     ServiceEmployees[f[r]], Site1>>]) :
        f \in [1..Len(ServiceValues) -> 1..Len(ServiceValues)]}

BoardTables ==
    {MakeTable(h, rs) :
        h \in {FullHeader, NoSiteHeader, SharedHeader},
        rs \in UNION {[1..n -> RowPool] : n \in 0..MaxRows}}

N_34999 == Num(34999, 1000)
N_37001 == Num(37001, 1000)

\* Leaderboards handed to the renderer.
Leaderboards ==
    LET servers == {Ann, Str(StoreAverage),
                    Str(<<" ", "s", "t", "o", "r", "e", " ", "a", "v", "e",
                          "r", "a", "g", "e", " ">>)}
        times == {N_34999, Num(35, 1), Num(37, 1), N_37001}
        rowsets == UNION {[1..n -> servers \X times] : n \in 1..MaxBoardRows}
    IN  {[columns |-> <<ServerCol, TurnTimeCol>>, rows |-> rs] : rs \in rowsets}
        \cup {[columns |-> <<SiteCol, ServerCol, TurnTimeCol>>,
               rows |-> [r \in 1..Len(rs) |-> <<Site1>> \o rs[r]]] :
              rs \in rowsets}

\* What the two number inputs of the sidebar may hold.
ThresholdChoices ==
    { DefaultThresholds,
      [green |-> Num(40, 1), yellow_hi |-> Num(37, 1)],
      [green |-> Num(37, 1), yellow_hi |-> Num(37, 1)],
      [green |-> Num(30, 1), yellow_hi |-> Num(45, 1)] }

FileNames == { <<"a", ".", "c", "s", "v">>, <<"b", ".", "c", "s", "v">> }

\* Tables of the uploads: the three-order example (Ann 30, Bob 50, one
\* take-out order), a table without an Employee column, a table without a
\* valid eat-in row, and an empty file.
FileTables ==
    { MakeTable(FullHeader,
                << <<T_1000, T_1030, EatIn, Ann, Site1>>,
                   <<T_1000, T_1050, EatIn, Bob, Site1>>,
                   <<T_1000, T_1010, TakeOut, Bob, Site1>> >>),
      MakeTable(SubSeq(FullHeader, 1, 3),
                << <<T_1000, T_1030, EatIn, Ann, Site1>> >>),
      MakeTable(NoSiteHeader,
                << <<T_1000, T_0950, EatIn, Ann, Site1>> >>),
      EmptyFrame }

Batches ==
    UNION {[1..n -> [name : FileNames, table : FileTables]] : n \in 0..MaxFiles}

----------------------------------------------------------------------------
(* Actions.                                                                *)

\* pick_col(df, ALIASES[r]) for one role r
CallPickCol ==
    /\ pc = "table"
    /\ \E r \in Roles :
          /\ role' = r
          /\ picked' = pick_col(df, ALIASES[r])
    /\ pc' = "picked"
    /\ UNCHANGED <<THRESHOLDS, uploads, i, shown, zf, errors, df, mapping,
                   out, colors, raised>>

\* map_required_columns(df)
CallMapRequiredColumns ==
    /\ pc = "table"
    /\ LET res == map_required_columns(df)
       IN  /\ raised' = res.raised
           /\ mapping' = IF res.raised = None THEN res.value ELSE mapping
    /\ pc' = "mapped"
    /\ UNCHANGED <<THRESHOLDS, uploads, i, shown, zf, errors, df, role,
                   picked, out, colors>>

\* compute_leaderboard(df, *mapping), after a mapping was returned
CallComputeLeaderboard ==
    /\ pc = "mapped"
    /\ raised = None
    /\ \E res \in compute_leaderboard(df, mapping) :
          /\ df' = res.df
          /\ raised' = res.raised
          /\ out' = IF res.raised = None THEN res.value ELSE out
    /\ pc' = "computed"
    /\ UNCHANGED <<THRESHOLDS, uploads, i, shown, zf, errors, role, picked,
                   mapping, colors>>

\* Lines 117-119: the sidebar's two inputs overwrite THRESHOLDS.
Sidebar ==
    /\ pc = "sidebar"
    /\ THRESHOLDS' \in ThresholdChoices
    /\ pc' = "configured"
    /\ UNCHANGED <<uploads, i, shown, zf, errors, df, role, picked, mapping,
                   out, colors, raised>>

\* render_image_table(out, title)
CallRenderImageTable ==
    /\ pc = "configured"
    /\ uploads = <<>>
    /\ out # EmptyFrame
    /\ colors' = render_image_table(out, TitlePrefix).colors
    /\ pc' = "rendered"
    /\ UNCHANGED <<THRESHOLDS, uploads, i, shown, zf, errors, df, role,
                   picked, mapping, out, raised>>

\* Lines 123-126: a batch was uploaded, the loop starts.
StartLoop ==
    /\ pc = "configured"
    /\ uploads # <<>>
    /\ i' = 1
    /\ pc' = "loop"
    /\ UNCHANGED <<THRESHOLDS, uploads, shown, zf, errors, df, role, picked,
                   mapping, out, colors, raised>>

\* Lines 146-147: nothing was uploaded.
NoUploads ==
    /\ pc = "configured"
    /\ uploads = <<>>
    /\ out = EmptyFrame
    /\ pc' = "info"
    /\ UNCHANGED <<THRESHOLDS, uploads, i, shown, zf, errors, df, role,
                   picked, mapping, out, colors, raised>>

\* Lines 127-141 for upload i: the try block up to the first exception,
\* then the except clause.
ProcessUpload ==
    /\ pc = "loop"
    /\ i <= Len(uploads)
    /\ LET upl == uploads[i]
           rd == read_csv(upl)
           mp == map_required_columns(rd.value)
           base == splitext_base(upl.name)
           title == TitlePrefix \o base
           fail(msg) ==
               /\ raised' = msg
               /\ errors' = except_clause(i, msg).errors
               /\ i' = except_clause(i, msg).next
               /\ UNCHANGED <<shown, zf, out, colors>>
       IN  IF rd.raised # None
           THEN fail(rd.raised) /\ UNCHANGED <<df, mapping>>
           ELSE IF mp.raised # None
           THEN fail(mp.raised) /\ df' = rd.value /\ UNCHANGED mapping
           ELSE \E res \in compute_leaderboard(rd.value, mp.value) :
                   /\ df' = res.df
                   /\ mapping' = mp.value
                   /\ IF res.raised # None
                      THEN fail(res.raised)
                      ELSE LET img == render_image_table(res.value, title)
                           IN  /\ out' = res.value
                               /\ colors' = img.colors
                               /\ shown' = Append(shown,
                                     [upl |-> i, image |-> img,
                                      caption |-> title])
                               /\ zf' = Append(zf,
                                     [upl |-> i, image |-> img,
                                      name |-> base \o PngSuffix])
                               /\ raised' = None
                               /\ i' = i + 1
                               /\ UNCHANGED errors
    /\ UNCHANGED <<pc, THRESHOLDS, uploads, role, picked>>

\* Lines 143-145: the loop is over, the archive is offered for download.
EndLoop ==
    /\ pc = "loop"
    /\ i > Len(uploads)
    /\ pc' = "done"
    /\ UNCHANGED <<THRESHOLDS, uploads, i, shown, zf, errors, df, role,
                   picked, mapping, out, colors, raised>>

----------------------------------------------------------------------------
(* Specifications.                                                         *)

\* The script, run once on a batch of uploads.
Init ==
    /\ pc = "sidebar"
    /\ THRESHOLDS = DefaultThresholds
    /\ uploads \in Batches
    /\ df = EmptyFrame
    /\ i = 0 /\ shown = <<>> /\ zf = <<>> /\ errors = <<>>
    /\ role = "" /\ picked = None /\ mapping = Unbound /\ out = EmptyFrame
    /\ colors = <<>> /\ raised = None

Next == Sidebar \/ StartLoop \/ NoUploads \/ ProcessUpload \/ EndLoop

Spec == Init /\ [][Next]_vars

\* pick_col and map_required_columns on the column lists of HeaderTables.
InitResolve ==
    /\ pc = "table"
    /\ THRESHOLDS = DefaultThresholds
    /\ uploads = <<>>
    /\ df \in HeaderTables
    /\ i = 0 /\ shown = <<>> /\ zf = <<>> /\ errors = <<>>
    /\ role = "" /\ picked = None /\ mapping = Unbound /\ out = EmptyFrame
    /\ colors = <<>> /\ raised = None

NextResolve == CallPickCol \/ CallMapRequiredColumns

SpecResolve == InitResolve /\ [][NextResolve]_vars

\* map_required_columns, then compute_leaderboard, on the BoardTables.
InitBoard ==
    /\ pc = "table"
    /\ THRESHOLDS = DefaultThresholds
    /\ uploads = <<>>
    /\ df \in BoardTables
    /\ i = 0 /\ shown = <<>> /\ zf = <<>> /\ errors = <<>>
    /\ role = "" /\ picked = None /\ mapping = Unbound /\ out = EmptyFrame
    /\ colors = <<>> /\ raised = None

NextBoard == CallMapRequiredColumns \/ CallComputeLeaderboard

SpecBoard == InitBoard /\ [][NextBoard]_vars

\* The sidebar, then render_image_table, on the Leaderboards.
InitRender ==
    /\ pc = "sidebar"
    /\ THRESHOLDS = DefaultThresholds
    /\ uploads = <<>>
    /\ out \in Leaderboards
    /\ df = EmptyFrame
    /\ i = 0 /\ shown = <<>> /\ zf = <<>> /\ errors = <<>>
    /\ role = "" /\ picked = None /\ mapping = Unbound
    /\ colors = <<>> /\ raised = None

NextRender == Sidebar \/ CallRenderImageTable

SpecRender == InitRender /\ [][NextRender]_vars

\* map_required_columns, then compute_leaderboard, on the ServiceTables.
InitService ==
    /\ pc = "table"
    /\ THRESHOLDS = DefaultThresholds
    /\ uploads = <<>>
    /\ df \in ServiceTables
    /\ i = 0 /\ shown = <<>> /\ zf = <<>> /\ errors = <<>>
    /\ role = "" /\ picked = None /\ mapping = Unbound /\ out = EmptyFrame
    /\ colors = <<>> /\ raised = None

NextService == CallMapRequiredColumns \/ CallComputeLeaderboard

SpecService == InitService /\ [][NextService]_vars

----------------------------------------------------------------------------
(* What the properties speak of.                                           *)

\* compute_leaderboard has returned a leaderboard.
Computed == pc = "computed" /\ raised = None

\* Row positions of out before its last row.
Ranked == 1..(Len(out.rows) - 1)

LastRow == Len(out.rows)

OpenedOf(r) == to_datetime(Cell(df, r, mapping.col_opened))
ClosedOf(r) == to_datetime(Cell(df, r, mapping.col_closed))

\* The rows of the table that are eat-in orders with both times parsed and
\* Closed not before Opened.
Eligible ==
    {r \in 1..Len(df.rows) :
        /\ eat_in(Cell(df, r, mapping.col_service))
        /\ OpenedOf(r).k = "ts"
        /\ ClosedOf(r).k = "ts"
        /\ ClosedOf(r).v[1] >= OpenedOf(r).v[1]}

Minutes(r) == ClosedOf(r).v[1] - OpenedOf(r).v[1]

RECURSIVE TotalMinutes(_)
TotalMinutes(S) ==
    IF S = {} THEN 0
    ELSE LET r == CHOOSE r \in S : TRUE
         IN  Minutes(r) + TotalMinutes(S \ {r})

\* The mean turn time of a non-empty set of rows, each row counted once.
MeanMinutes(S) == Num(TotalMinutes(S), Cardinality(S))

\* The employee a row is grouped under.
LabelOf(r) ==
    LET c == Cell(df, r, mapping.col_server)
    IN  IF c.k = "nan" \/ c = Str(<<>>) THEN Str(Unknown) ELSE c

RowsOf(label) == {r \in Eligible : LabelOf(r) = label}

RECURSIVE NumTotal(_)
NumTotal(S) ==
    IF S = {} THEN Num(0, 1)
    ELSE LET x == CHOOSE x \in S : TRUE
         IN  NumAdd(x[2], NumTotal(S \ {x}))

\* The mean of the per-employee means.
MeanOfGroupMeans ==
    LET labels == {LabelOf(r) : r \in Eligible}
        means == {<<l, MeanMinutes(RowsOf(l))>> : l \in labels}
    IN  NumDiv(NumTotal(means), Cardinality(labels))

----------------------------------------------------------------------------
(* Properties.                                                             *)

\* C1: whenever compute_leaderboard returns, the Turn Time of its rows is
\* non-decreasing over all rows but the last, and the Server of the last
\* row is "STORE AVERAGE".
C1_SortedThenAverage ==
    Computed =>
        /\ \A r \in Ranked : r + 1 \in Ranked =>
              NumLeq(Cell(out, r, TurnTimeCol), Cell(out, r + 1, TurnTimeCol))
        /\ Cell(out, LastRow, ServerCol) = Str(StoreAverage)

\* Two employees of different means were ranked, and the store average is
\* below the mean of the last ranked employee.
C1_Witness ==
    /\ Computed
    /\ Len(out.rows) >= 3
    /\ NumLess(Cell(out, 1, TurnTimeCol), Cell(out, 2, TurnTimeCol))
    /\ NumLess(Cell(out, LastRow, TurnTimeCol),
               Cell(out, LastRow - 1, TurnTimeCol))

\* C2: the Turn Time of the STORE AVERAGE row is the mean of the turn times
\* of all surviving rows, each counted once, rounded to 2 decimals.
C2_StoreAverageIsRowMean ==
    Computed =>
        Cell(out, LastRow, TurnTimeCol) = Round2(MeanMinutes(Eligible))

\* Groups of unequal size, where the store average is neither the mean of
\* the group means nor the mean of the displayed (rounded) means.
C2_Witness ==
    /\ Computed
    /\ \E a, b \in Ranked :
          Cardinality(RowsOf(Cell(out, a, ServerCol)))
            # Cardinality(RowsOf(Cell(out, b, ServerCol)))
    /\ Cell(out, LastRow, TurnTimeCol) # Round2(MeanOfGroupMeans)
    /\ Cell(out, LastRow, TurnTimeCol)
         # Round2(NumDiv(NumTotal({<<r, Cell(out, r, TurnTimeCol)>> : r \in Ranked}),
                         Cardinality(Ranked)))

\* C5 (as claimed): compute_leaderboard leaves every cell of the caller's
\* table as it was.
C5_TableUnchanged == [][CallComputeLeaderboard => df' = df]_vars

\* C7: the call fails exactly when no row is an eat-in row with both times
\* parsed and Closed not before Opened; otherwise the ranked employees are
\* those of such rows, each mean is the mean over such rows of that
\* employee, and the store average is the mean over all such rows.
C7_OnlyValidRowsContribute ==
    pc = "computed" =>
        /\ raised # None <=> Eligible = {}
        /\ raised = None =>
              /\ {Cell(out, r, ServerCol) : r \in Ranked}
                   = {LabelOf(r) : r \in Eligible}
              /\ \A r \in Ranked :
                    Cell(out, r, TurnTimeCol)
                      = Round2(MeanMinutes(RowsOf(Cell(out, r, ServerCol))))
              /\ Cell(out, LastRow, TurnTimeCol) = Round2(MeanMinutes(Eligible))

\* A leaderboard from a table with a valid row, a row closed before it was
\* opened and a row that is not eat-in.
C7_Witness ==
    /\ Computed
    /\ Eligible # {}
    /\ \E r \in 1..Len(df.rows) :
          /\ eat_in(Cell(df, r, mapping.col_service))
          /\ OpenedOf(r).k = "ts" /\ ClosedOf(r).k = "ts"
          /\ ClosedOf(r).v[1] < OpenedOf(r).v[1]
    /\ \E r \in 1..Len(df.rows) : ~eat_in(Cell(df, r, mapping.col_service))

\* The values the Site column holds in the surviving rows.
SiteValues ==
    {Cell(df, r, mapping.col_site) : r \in Eligible} \ {NaN, NaT}

\* C8 (as claimed): the output has a Site column exactly when Site was
\* resolved and the surviving rows hold one distinct non-missing Site
\* value, and then every row, the STORE AVERAGE row too, carries it.
C8_SingleSite ==
    Computed =>
        /\ HasColumn(out, SiteCol)
             <=> (mapping.col_site # None /\ Cardinality(SiteValues) = 1)
        /\ HasColumn(out, SiteCol) =>
              \A r \in 1..Len(out.rows) : Cell(out, r, SiteCol) \in SiteValues

\* The employee of row r of the table is ranked in the leaderboard: the
\* row passed the filter (all orders of ServiceTables have valid times).
Retained(r) ==
    /\ raised = None
    /\ \E q \in Ranked :
          Cell(out, q, ServerCol) = Cell(df, r, mapping.col_server)

ServiceOf(r) == Cell(df, r, mapping.col_service)

\* C6 (as claimed): of orders with the Service values "Eat In", "EAT-IN",
\* "Take Out" and "to go", the filter retains exactly those with "Eat In"
\* and "EAT-IN".
C6_RetainsEatInAndHyphen ==
    pc = "computed" =>
        \A r \in 1..Len(df.rows) :
            Retained(r) <=> ServiceOf(r) \in {EatIn, EatHyphenIn}

\* C6 (amended): of orders with those four Service values, the filter
\* retains exactly those with "Eat In"; "EAT-IN" holds no "eat in".
C6_RetainsEatInOnly ==
    pc = "computed" =>
        \A r \in 1..Len(df.rows) : Retained(r) <=> ServiceOf(r) = EatIn

\* The table of the claim, one order per value in the claim's order, after
\* the call.
C6_Witness ==
    /\ pc = "computed"
    /\ [r \in 1..Len(df.rows) |-> ServiceOf(r)] = ServiceValues
    /\ Retained(1)

----------------------------------------------------------------------------

RoleText ==
    [r \in Roles |->
        CASE r = "Opened" -> <<"O", "p", "e", "n", "e", "d">>
          [] r = "Closed" -> <<"C", "l", "o", "s", "e", "d">>
          [] r = "Service" -> <<"S", "e", "r", "v", "i", "c", "e">>
          [] r = "Created By" -> <<"C", "r", "e", "a", "t", "e", "d", " ", "B", "y">>
          [] r = "Site" -> <<"S", "i", "t", "e">>]

\* Column j of the table satisfies role r: its trimmed, lower-cased name
\* equals or contains one of the role's aliases.
Satisfies(j, r) ==
    \E a \in 1..Len(ALIASES[r]) :
        AliasHit(Lower(Strip(df.columns[j])), ALIASES[r][a])

Resolvable(r) == \E j \in 1..Len(df.columns) : Satisfies(j, r)

\* The required roles no column satisfies, in the order of the message.
Unresolved ==
    SelectSeq(<<"Opened", "Closed", "Service", "Created By">>,
              LAMBDA r : ~Resolvable(r))

\* C4: map_required_columns fails exactly when a required role is
\* unresolved; the message then names the unresolved required roles, all
\* of them and no other, and no mapping is returned; an unresolved Site
\* causes no failure.
C4_FailsIffRequiredMissing ==
    pc = "mapped" =>
        /\ raised # None <=> Unresolved # <<>>
        /\ raised # None =>
              /\ raised = MissingPrefix
                            \o Join([j \in 1..Len(Unresolved) |->
                                       RoleText[Unresolved[j]]], CommaSpace)
              /\ mapping = Unbound
        /\ raised = None =>
              /\ \A f \in {"col_opened", "col_closed", "col_service",
                           "col_server"} : mapping[f] # None
              /\ mapping.col_site = None <=> ~Resolvable("Site")

\* A failure that names two roles, on a table that has a Site column.
C4_Witness ==
    /\ pc = "mapped"
    /\ raised # None
    /\ Len(Unresolved) = 2
    /\ Resolvable("Site")

\* C10: pick_col returns the first column, in the order of the table, that
\* satisfies the role by any alias, and None exactly when no column does.
C10_FirstColumnWins ==
    pc = "picked" =>
        LET hits == {j \in 1..Len(df.columns) : Satisfies(j, role)}
        IN  IF hits = {} THEN picked = None
            ELSE picked = df.columns[CHOOSE j \in hits : \A m \in hits : j <= m]

\* The column picked satisfies only a later alias than a column after it.
C10_Witness ==
    /\ pc = "picked"
    /\ picked # None
    /\ \E j, m \in 1..Len(df.columns), a \in 1..Len(ALIASES[role]) :
          /\ df.columns[j] = picked
          /\ j < m
          /\ AliasHit(Lower(Strip(df.columns[m])), ALIASES[role][a])
          /\ \A b \in 1..a :
                ~AliasHit(Lower(Strip(picked)), ALIASES[role][b])

----------------------------------------------------------------------------

IsAverageRow(r) == Upper(Strip(PyStr(Cell(out, r, ServerCol)))) = StoreAverage

TurnTimeIdx == CHOOSE j \in 1..Len(display_cols(out)) : display_cols(out)[j] = TurnTimeCol

\* Every cell of row r but its Turn Time cell has the default background.
OthersDefault(r) ==
    \A j \in 1..Len(display_cols(out)) : j # TurnTimeIdx => colors[r][j] = "white"

\* C9 (as claimed): a row other than STORE AVERAGE has its Turn Time cell
\* good below green, warning from green to yellow_hi, bad above yellow_hi,
\* and its other cells default; a STORE AVERAGE row is neutral throughout.
C9_ColourByThresholds ==
    pc = "rendered" =>
        \A r \in 1..Len(out.rows) :
            LET v == Cell(out, r, TurnTimeCol)
                colour == colors[r][TurnTimeIdx]
            IN  IF IsAverageRow(r)
                THEN \A j \in 1..Len(display_cols(out)) : colors[r][j] = "#E0E0E0"
                ELSE /\ OthersDefault(r)
                     /\ NumLess(v, THRESHOLDS.green) => colour = "#C6EFCE"
                     /\ (NumLeq(THRESHOLDS.green, v)
                           /\ NumLeq(v, THRESHOLDS.yellow_hi)) => colour = "#FFEB9C"
                     /\ NumLess(THRESHOLDS.yellow_hi, v) => colour = "#FFC7CE"

\* C9 (amended): the three tests are tried in order: good below green,
\* else warning up to yellow_hi, else bad; with (35, 37), 34.999 is good,
\* 35.0 and 37.0 are warning and 37.001 is bad.
C9_ColourByFirstTest ==
    pc = "rendered" =>
        \A r \in 1..Len(out.rows) :
            LET v == Cell(out, r, TurnTimeCol)
                colour == colors[r][TurnTimeIdx]
            IN  IF IsAverageRow(r)
                THEN \A j \in 1..Len(display_cols(out)) : colors[r][j] = "#E0E0E0"
                ELSE /\ OthersDefault(r)
                     /\ colour \in {"#C6EFCE", "#FFEB9C", "#FFC7CE"}
                     /\ colour = "#C6EFCE" <=> NumLess(v, THRESHOLDS.green)
                     /\ colour = "#FFEB9C" <=>
                           (~NumLess(v, THRESHOLDS.green)
                              /\ NumLeq(v, THRESHOLDS.yellow_hi))
                     /\ THRESHOLDS = DefaultThresholds =>
                           /\ v = N_34999 => colour = "#C6EFCE"
                           /\ v \in {Num(35, 1), Num(37, 1)} => colour = "#FFEB9C"
                           /\ v = N_37001 => colour = "#FFC7CE"

\* With (35, 37): a row at 35.0 coloured warning above a row named
\* " store average " left neutral.
C9_Witness ==
    /\ pc = "rendered"
    /\ THRESHOLDS = DefaultThresholds
    /\ Len(out.rows) = 2
    /\ ~IsAverageRow(1)
    /\ Cell(out, 1, TurnTimeCol) = Num(35, 1)
    /\ colors[1][TurnTimeIdx] = "#FFEB9C"
    /\ Cell(out, 2, ServerCol) # Str(StoreAverage)
    /\ IsAverageRow(2)

----------------------------------------------------------------------------

ImagesOf(k) == {e \in 1..Len(shown) : shown[e].upl = k}
ErrorsOf(k) == {e \in 1..Len(errors) : errors[e].upl = k}

\* Upload k, taken alone, yields a leaderboard.
Succeeds(k) ==
    LET rd == read_csv(uploads[k])
        mp == map_required_columns(rd.value)
    IN  /\ rd.raised = None
        /\ mp.raised = None
        /\ \A res \in compute_leaderboard(rd.value, mp.value) : res.raised = None

\* C3: every upload the loop has passed has exactly one outcome, an image
\* or an error that starts with its name, decided by that upload alone;
\* no later upload has one yet; and when the loop is over every upload has
\* been passed.
C3_OneOutcomePerFile ==
    pc \in {"loop", "done"} =>
        /\ pc = "done" => i = Len(uploads) + 1
        /\ \A k \in 1..Len(uploads) :
              IF k < i
              THEN /\ Cardinality(ImagesOf(k)) + Cardinality(ErrorsOf(k)) = 1
                   /\ ImagesOf(k) # {} <=> Succeeds(k)
                   /\ \A e \in ErrorsOf(k) :
                         SubSeq(errors[e].text, 1, Len(uploads[k].name) + 2)
                           = uploads[k].name \o ColonSpace
              ELSE ImagesOf(k) = {} /\ ErrorsOf(k) = {}

\* Two uploads, the first without an Employee column, the second valid:
\* one error, then one image.
C3_Witness ==
    /\ pc = "done"
    /\ Len(uploads) = 2
    /\ ErrorsOf(1) # {} /\ ImagesOf(2) # {}
    /\ map_required_columns(uploads[1].table).raised
         = MissingPrefix \o RoleText["Created By"]

====
